---------------------------- MODULE Spec2Model ----------------------------
(***************************************************************************)
(* Model of modules/RTC/JitsiLocalTrack.js: one JitsiLocalTrack, its       *)
(* mute()/unmute() promise chains, the device-list listener and the        *)
(* conference binding.  Every promise callback of the source is one        *)
(* action; the collaborators (conference room, RTCUtils) answer            *)
(* nondeterministically.                                                   *)
(***************************************************************************)
EXTENDS Integers, Sequences, FiniteSets, TLC

\* ------------------------------------------------------------------ bounds
\* number of mute()/unmute() calls issued in one behaviour
MaxCalls == 2

\* ------------------------------------------------- values of the program
Undefined == "undefined"
NoTrack == [absent |-> TRUE]
TRACK_MUTE_UNMUTE_IN_PROGRESS == "track.mute_unmute_in_progress"
TRACK_NO_STREAM_FOUND == "track.no_stream_found"
OK == "ok"
NoFault == "none"
\* faults the collaborators may raise
RoomFaults == {"room.fault1", "room.fault2"}
GUM_FAULT == "gum.permission_denied"

VARIABLES
    mediaType,              \* JitsiTrack.type: "audio" | "video"
    videoType,              \* this.videoType: "camera" | "desktop" | Undefined
    protocol,               \* window.location.protocol
    isFirefox,              \* RTCBrowserType.isFirefox()
    resolution,             \* this.resolution
    deviceId,               \* this.deviceId
    _facingMode,            \* this._facingMode
    _realDeviceId,          \* this._realDeviceId
    _trackEnded,            \* this._trackEnded
    stream,                 \* this.stream: 0 is null, otherwise a stream id
    streams,                \* the native streams created so far
    track,                  \* this.track: NoTrack or the native track
    conference,             \* this.conference: "none", or "room" when it has a room
    startMuted,             \* this.startMuted
    dontFireRemoveEvent,    \* this.dontFireRemoveEvent
    inMuteOrUnmuteProgress, \* this.inMuteOrUnmuteProgress
    calls,                  \* the promise chains of the mute()/unmute() calls
    log,                    \* collaborator calls, acknowledgements and events
    disposing,              \* position of the dispose() call, "idle" before it
    disposeLog              \* what dispose() has done so far, in order

env == <<mediaType, protocol, isFirefox, resolution, deviceId, _facingMode>>
dev == <<_realDeviceId, _trackEnded>>
media == <<stream, streams, track, videoType>>
flags == <<startMuted, dontFireRemoveEvent>>
life == <<disposing, disposeLog>>
vars == <<env, dev, media, flags, conference, inMuteOrUnmuteProgress,
          calls, log, life>>

\* ------------------------------------------------------- pure functions
isAudioTrack == mediaType = "audio"
isVideoTrack == mediaType = "video"

\* JitsiTrack.isActive: the stream's "active" property
isActive == streams[stream].active

\* mutant: the null stream is not tested
isMuted_IgnoresNullStream ==
    IF stream # 0 /\ isVideoTrack /\ ~isActive THEN TRUE
    ELSE track = NoTrack \/ ~track.enabled

isMuted ==
    IF stream = 0 THEN TRUE
    ELSE IF isVideoTrack /\ ~isActive THEN TRUE
    ELSE track = NoTrack \/ ~track.enabled

\* JS truthiness of a device id: undefined and '' are falsy
Truthy(v) == v # Undefined /\ v # ""

getDeviceId == IF Truthy(_realDeviceId) THEN _realDeviceId ELSE deviceId

getCameraFacingMode ==
    IF isVideoTrack /\ videoType = "camera" THEN
        IF track # NoTrack /\ track.facing # Undefined THEN track.facing
        ELSE IF _facingMode # Undefined THEN _facingMode
        ELSE "user"
    ELSE Undefined

\* mutant: desktop sharing is not exempted from stream teardown
localDisablement_NoDesktop ==
    \/ protocol # "https:"
    \/ isAudioTrack
    \/ isFirefox

\* the condition choosing local disablement over stream teardown
localDisablement ==
    \/ protocol # "https:"
    \/ isAudioTrack
    \/ videoType = "desktop"
    \/ isFirefox

\* mutant: a conference without a room counts as a binding
unbound_IgnoresRoom == conference = "none"

unbound == conference # "room"

\* Array.prototype.find over the sequence of the predicate's values, as the
\* index of the first match (0 when none)
find(hits) ==
    IF \E k \in DOMAIN hits : hits[k]
    THEN CHOOSE k \in DOMAIN hits : hits[k] /\ \A j \in 1..(k - 1) : ~hits[j]
    ELSE 0

inputKind(kind) == IF kind = "audio" THEN "audioinput" ELSE "videoinput"

Entry(op, id, arg) == [op |-> op, id |-> id, arg |-> arg]
\* a promise chain; vt, was, had and busy record videoType, isMuted(), the
\* stream and the guard as they were when the call was made
Chain(mute, pc, result) ==
    [mute |-> mute, pc |-> pc, fault |-> NoFault, result |-> result,
     vt |-> videoType, was |-> isMuted, had |-> stream,
     busy |-> inMuteOrUnmuteProgress]
SetPc(i, pc) == [calls EXCEPT ![i].pc = pc]
Fail(i, fault) == [calls EXCEPT ![i].pc = "catch", ![i].fault = fault]

\* ------------------------------------------------- device-list listener
\* mutant: a list without a label match forgets the resolved id
_setRealDeviceIdFromDeviceList_ClearsOnMiss(devices) ==
    LET k == find([n \in DOMAIN devices |->
                     /\ devices[n].kind = inputKind(mediaType)
                     /\ devices[n].label = track.label])
    IN IF k # 0 THEN devices[k].deviceId ELSE Undefined

_setRealDeviceIdFromDeviceList(devices) ==
    LET k == find([n \in DOMAIN devices |->
                     /\ devices[n].kind = inputKind(mediaType)
                     /\ devices[n].label = track.label])
    IN IF k # 0 THEN devices[k].deviceId ELSE _realDeviceId

\* mutant: the native track's readyState is not looked at
_onDeviceListChanged_IgnoresReadyState(devices) ==
    /\ disposing = "idle"
    /\ track # NoTrack
    /\ LET real == _setRealDeviceIdFromDeviceList(devices)
       IN /\ _realDeviceId' = real
          /\ _trackEnded' =
                IF /\ real # Undefined
                   /\ find([n \in DOMAIN devices |->
                              devices[n].deviceId = real]) = 0
                THEN TRUE ELSE _trackEnded
    /\ UNCHANGED <<env, life, media, flags, conference,
                   inMuteOrUnmuteProgress, calls, log>>

_onDeviceListChanged(devices) ==
    \* dispose() removes the listener
    /\ disposing = "idle"
    \* with no native track the listener throws before it changes anything
    /\ track # NoTrack
    /\ LET real == _setRealDeviceIdFromDeviceList(devices)
       IN /\ _realDeviceId' = real
          /\ _trackEnded' =
                IF /\ track.readyState = Undefined
                   /\ real # Undefined
                   /\ find([n \in DOMAIN devices |->
                              devices[n].deviceId = real]) = 0
                THEN TRUE ELSE _trackEnded
    /\ UNCHANGED <<env, life, media, flags, conference, inMuteOrUnmuteProgress,
                   calls, log>>

_setConference(c) ==
    /\ conference' = c
    /\ UNCHANGED <<env, life, dev, media, flags, inMuteOrUnmuteProgress,
                   calls, log>>

\* ------------------------------------------------------- mute / unmute
\* each returns the chain's next position and the room calls it makes
_removeStreamFromConferenceAsMute(id) ==
    IF unbound THEN [pc |-> "stopStream", out |-> <<>>]
    ELSE [pc |-> "removeWait",
          out |-> <<Entry("removeStream", id, "mute")>>]

_addStreamToConferenceAsUnmute(id) ==
    IF unbound THEN [pc |-> "sendMute", out |-> <<>>]
    ELSE [pc |-> "addWait",
          out |-> <<Entry("addStream", id, "unmute")>>]

\* mutant: the room is told, but its acknowledgement is not awaited
_sendMuteStatus_NoWait(id, mute) ==
    IF unbound THEN [pc |-> "emit", out |-> <<>>]
    ELSE [pc |-> "emit",
          out |-> <<Entry(IF isAudioTrack THEN "setAudioMute"
                          ELSE "setVideoMute", id, mute)>>]

_sendMuteStatus(id, mute) ==
    IF unbound THEN [pc |-> "emit", out |-> <<>>]
    ELSE [pc |-> "setMuteWait",
          out |-> <<Entry(IF isAudioTrack THEN "setAudioMute"
                          ELSE "setVideoMute", id, mute)>>]

streamOptions ==
    [cameraDeviceId |-> getDeviceId,
     facingMode |-> getCameraFacingMode,
     resolution |-> resolution]

\* mutant: no early return when the target is already reached
_setMute_NoEarlyReturn(id, mute) ==
    /\ startMuted' = IF unbound THEN mute ELSE startMuted
    /\ IF localDisablement THEN
          /\ dontFireRemoveEvent' = FALSE
          /\ track' = IF track # NoTrack
                      THEN [track EXCEPT !.enabled = ~mute] ELSE track
          /\ calls' = Append(calls, Chain(mute, "sendMute", "pending"))
          /\ UNCHANGED <<stream, streams, videoType, log>>
       ELSE IF mute THEN
          /\ dontFireRemoveEvent' = TRUE
          /\ LET r == _removeStreamFromConferenceAsMute(id)
             IN /\ calls' = Append(calls, Chain(mute, r.pc, "pending"))
                /\ log' = log \o r.out
          /\ UNCHANGED media
       ELSE
          /\ dontFireRemoveEvent' = FALSE
          /\ calls' = Append(calls, Chain(mute, "obtainWait", "pending"))
          /\ log' = Append(log, Entry("obtain", id, streamOptions))
          /\ UNCHANGED media

\* the synchronous part of _setMute, run inside createMuteUnmutePromise
_setMute(id, mute) ==
    IF isMuted = mute THEN
        /\ calls' = Append(calls, Chain(mute, "then", "pending"))
        /\ UNCHANGED <<media, flags, log>>
    ELSE
        /\ startMuted' = IF unbound THEN mute ELSE startMuted
        /\ IF localDisablement THEN
              /\ dontFireRemoveEvent' = FALSE
              /\ track' = IF track # NoTrack
                          THEN [track EXCEPT !.enabled = ~mute] ELSE track
              /\ calls' = Append(calls,
                                 Chain(mute, "sendMute", "pending"))
              /\ UNCHANGED <<stream, streams, videoType, log>>
           ELSE IF mute THEN
              /\ dontFireRemoveEvent' = TRUE
              /\ LET r == _removeStreamFromConferenceAsMute(id)
                 IN /\ calls' = Append(calls,
                                  Chain(mute, r.pc, "pending"))
                    /\ log' = log \o r.out
              /\ UNCHANGED media
           ELSE
              /\ dontFireRemoveEvent' = FALSE
              /\ calls' = Append(calls,
                            Chain(mute, "obtainWait", "pending"))
              /\ log' = Append(log, Entry("obtain", id, streamOptions))
              /\ UNCHANGED media

\* mutant: the guard is set but never tested
createMuteUnmutePromise_NoGuard(mute) ==
    /\ Len(calls) < MaxCalls
    /\ inMuteOrUnmuteProgress' = TRUE
    /\ _setMute(Len(calls) + 1, mute)
    /\ UNCHANGED <<env, life, dev, conference>>

\* mutant: a call whose target is already reached leaves the guard alone
createMuteUnmutePromise_NoOpFree(mute) ==
    /\ Len(calls) < MaxCalls
    /\ IF inMuteOrUnmuteProgress THEN
          /\ calls' = Append(calls, Chain(mute, "done",
                                          TRACK_MUTE_UNMUTE_IN_PROGRESS))
          /\ UNCHANGED <<media, flags, inMuteOrUnmuteProgress, log>>
       ELSE IF isMuted = mute THEN
          /\ calls' = Append(calls, Chain(mute, "done", OK))
          /\ UNCHANGED <<media, flags, inMuteOrUnmuteProgress, log>>
       ELSE
          /\ inMuteOrUnmuteProgress' = TRUE
          /\ _setMute(Len(calls) + 1, mute)
    /\ UNCHANGED <<env, life, dev, conference>>

\* mute() is createMuteUnmutePromise(track, true), unmute() (track, false)
createMuteUnmutePromise(mute) ==
    /\ Len(calls) < MaxCalls
    /\ IF inMuteOrUnmuteProgress THEN
          /\ calls' = Append(calls, Chain(mute, "done",
                                          TRACK_MUTE_UNMUTE_IN_PROGRESS))
          /\ UNCHANGED <<media, flags, inMuteOrUnmuteProgress, log>>
       ELSE
          /\ inMuteOrUnmuteProgress' = TRUE
          /\ _setMute(Len(calls) + 1, mute)
    /\ UNCHANGED <<env, life, dev, conference>>

mute == createMuteUnmutePromise(TRUE)
unmute == createMuteUnmutePromise(FALSE)

\* mutant: the stream is torn down whatever the room answered
removeStreamDone_IgnoresFailure(i, fault) ==
    /\ calls[i].pc = "removeWait"
    /\ calls' = SetPc(i, "stopStream")
    /\ log' = Append(log, IF fault = NoFault
                          THEN Entry("removeStreamOk", i, "mute")
                          ELSE Entry("removeStreamFail", i, fault))
    /\ UNCHANGED <<env, life, dev, media, flags, conference,
                   inMuteOrUnmuteProgress>>

\* the room answers removeStream through resolve or reject
removeStreamDone(i, fault) ==
    /\ calls[i].pc = "removeWait"
    /\ IF fault = NoFault THEN
          /\ calls' = SetPc(i, "stopStream")
          /\ log' = Append(log, Entry("removeStreamOk", i, "mute"))
       ELSE
          /\ calls' = Fail(i, fault)
          /\ log' = Append(log, Entry("removeStreamFail", i, fault))
    /\ UNCHANGED <<env, life, dev, media, flags, conference,
                   inMuteOrUnmuteProgress>>

\* RTCUtils.stopMediaStream
stopMediaStream(s) ==
    IF s = 0 THEN streams ELSE [streams EXCEPT ![s].stopped = TRUE]

\* the callback after _removeStreamFromConferenceAsMute
muteStreamRemoved(i) ==
    /\ calls[i].pc = "stopStream"
    /\ streams' = stopMediaStream(stream)
    /\ stream' = 0
    /\ calls' = SetPc(i, "sendMute")
    /\ log' = log \o <<Entry("stopMediaStream", i, stream),
                       Entry("clearStream", i, stream)>>
    /\ UNCHANGED <<env, life, dev, track, videoType, flags, conference,
                   inMuteOrUnmuteProgress>>

\* mutant: the new stream is adopted, the new native track is not
unmuteStreamsObtained_KeepsTrack(i, streamsInfo) ==
    /\ calls[i].pc = "obtainWait"
    /\ LET k == find([n \in DOMAIN streamsInfo |->
                        streamsInfo[n].mediaType = mediaType])
       IN IF k = 0 THEN
             /\ calls' = Fail(i, TRACK_NO_STREAM_FOUND)
             /\ log' = Append(log, Entry("obtainedNone", i, 0))
             /\ UNCHANGED media
          ELSE
             LET streamInfo == streamsInfo[k]
                 fresh == Len(streams) + 1
                 r == _addStreamToConferenceAsUnmute(i)
             IN /\ streams' = Append(streams,
                                 [active |-> TRUE, stopped |-> FALSE])
                /\ stream' = fresh
                /\ track' = track
                /\ videoType' = IF videoType # streamInfo.videoType
                                THEN streamInfo.videoType ELSE videoType
                /\ calls' = SetPc(i, r.pc)
                /\ log' = log \o <<Entry("obtained", i, streamInfo),
                                   Entry("adopt", i, fresh)>> \o r.out
    /\ UNCHANGED <<env, life, dev, flags, conference, inMuteOrUnmuteProgress>>

\* mutant: a result without a stream of the track's type is not an error
unmuteStreamsObtained_NoThrow(i, streamsInfo) ==
    /\ calls[i].pc = "obtainWait"
    /\ LET k == find([n \in DOMAIN streamsInfo |->
                        streamsInfo[n].mediaType = mediaType])
       IN IF k = 0 THEN
             LET r == _addStreamToConferenceAsUnmute(i)
             IN /\ calls' = SetPc(i, r.pc)
                /\ log' = log \o <<Entry("obtainedNone", i, 0)>> \o r.out
                /\ UNCHANGED media
          ELSE
             LET streamInfo == streamsInfo[k]
                 fresh == Len(streams) + 1
                 r == _addStreamToConferenceAsUnmute(i)
             IN /\ streams' = Append(streams,
                                 [active |-> TRUE, stopped |-> FALSE])
                /\ stream' = fresh
                /\ track' = streamInfo.track
                /\ videoType' = IF videoType # streamInfo.videoType
                                THEN streamInfo.videoType ELSE videoType
                /\ calls' = SetPc(i, r.pc)
                /\ log' = log \o <<Entry("obtained", i, streamInfo),
                                   Entry("adopt", i, fresh)>> \o r.out
    /\ UNCHANGED <<env, life, dev, flags, conference, inMuteOrUnmuteProgress>>

\* the callback after RTCUtils.obtainAudioAndVideoPermissions resolved
unmuteStreamsObtained(i, streamsInfo) ==
    /\ calls[i].pc = "obtainWait"
    /\ LET k == find([n \in DOMAIN streamsInfo |->
                        streamsInfo[n].mediaType = mediaType])
       IN IF k = 0 THEN
             /\ calls' = Fail(i, TRACK_NO_STREAM_FOUND)
             /\ log' = Append(log, Entry("obtainedNone", i, 0))
             /\ UNCHANGED media
          ELSE
             LET streamInfo == streamsInfo[k]
                 fresh == Len(streams) + 1
                 r == _addStreamToConferenceAsUnmute(i)
             IN /\ streams' = Append(streams,
                                 [active |-> TRUE, stopped |-> FALSE])
                /\ stream' = fresh
                /\ track' = streamInfo.track
                /\ videoType' = IF videoType # streamInfo.videoType
                                THEN streamInfo.videoType ELSE videoType
                /\ calls' = SetPc(i, r.pc)
                /\ log' = log \o <<Entry("obtained", i, streamInfo),
                                   Entry("adopt", i, fresh)>> \o r.out
    /\ UNCHANGED <<env, life, dev, flags, conference, inMuteOrUnmuteProgress>>

\* RTCUtils.obtainAudioAndVideoPermissions rejected
unmuteObtainFailed(i) ==
    /\ calls[i].pc = "obtainWait"
    /\ calls' = Fail(i, GUM_FAULT)
    /\ log' = Append(log, Entry("obtainFail", i, GUM_FAULT))
    /\ UNCHANGED <<env, life, dev, media, flags, conference,
                   inMuteOrUnmuteProgress>>

\* mutant: the chain goes on whatever the room answered to addStream
addStreamDone_IgnoresFailure(i, fault) ==
    /\ calls[i].pc = "addWait"
    /\ calls' = SetPc(i, "sendMute")
    /\ log' = Append(log, IF fault = NoFault
                          THEN Entry("addStreamOk", i, "unmute")
                          ELSE Entry("addStreamFail", i, fault))
    /\ UNCHANGED <<env, life, dev, media, flags, conference,
                   inMuteOrUnmuteProgress>>

\* the room answers addStream through resolve or reject
addStreamDone(i, fault) ==
    /\ calls[i].pc = "addWait"
    /\ IF fault = NoFault THEN
          /\ calls' = SetPc(i, "sendMute")
          /\ log' = Append(log, Entry("addStreamOk", i, "unmute"))
       ELSE
          /\ calls' = Fail(i, fault)
          /\ log' = Append(log, Entry("addStreamFail", i, fault))
    /\ UNCHANGED <<env, life, dev, media, flags, conference,
                   inMuteOrUnmuteProgress>>

\* first callback of the chain _setMute returns
muteStatusStep(i) ==
    /\ calls[i].pc = "sendMute"
    /\ LET r == _sendMuteStatus(i, calls[i].mute)
       IN /\ calls' = SetPc(i, r.pc)
          /\ log' = log \o r.out
    /\ UNCHANGED <<env, life, dev, media, flags, conference,
                   inMuteOrUnmuteProgress>>

\* mutant: the resolve callback is never called
setMuteDone_NeverResolves(i) ==
    /\ calls[i].pc = "setMuteWait"
    /\ FALSE
    /\ UNCHANGED vars

\* the room calls the resolve callback of setAudioMute / setVideoMute
setMuteDone(i) ==
    /\ calls[i].pc = "setMuteWait"
    /\ calls' = SetPc(i, "emit")
    /\ log' = Append(log, Entry("setMuteOk", i, calls[i].mute))
    /\ UNCHANGED <<env, life, dev, media, flags, conference,
                   inMuteOrUnmuteProgress>>

\* mutant: the event is emitted twice
emitMuteChanged_Twice(i) ==
    /\ calls[i].pc = "emit"
    /\ calls' = SetPc(i, "then")
    /\ log' = log \o <<Entry("TRACK_MUTE_CHANGED", i, isMuted),
                       Entry("TRACK_MUTE_CHANGED", i, isMuted)>>
    /\ UNCHANGED <<env, life, dev, media, flags, conference,
                   inMuteOrUnmuteProgress>>

\* last callback of the chain _setMute returns
emitMuteChanged(i) ==
    /\ calls[i].pc = "emit"
    /\ calls' = SetPc(i, "then")
    /\ log' = Append(log, Entry("TRACK_MUTE_CHANGED", i, isMuted))
    /\ UNCHANGED <<env, life, dev, media, flags, conference,
                   inMuteOrUnmuteProgress>>

\* .then() of createMuteUnmutePromise
muteUnmuteThen(i) ==
    /\ calls[i].pc = "then"
    /\ inMuteOrUnmuteProgress' = FALSE
    /\ calls' = [calls EXCEPT ![i].pc = "done", ![i].result = OK]
    /\ UNCHANGED <<env, life, dev, media, flags, conference, log>>

\* mutant: the rejection handler rethrows without clearing the guard
muteUnmuteCatch_KeepsGuard(i) ==
    /\ calls[i].pc = "catch"
    /\ calls' = [calls EXCEPT ![i].pc = "done",
                              ![i].result = calls[i].fault]
    /\ UNCHANGED <<env, life, dev, media, flags, conference, log,
                   inMuteOrUnmuteProgress>>

\* .catch() of createMuteUnmutePromise
muteUnmuteCatch(i) ==
    /\ calls[i].pc = "catch"
    /\ inMuteOrUnmuteProgress' = FALSE
    /\ calls' = [calls EXCEPT ![i].pc = "done",
                              ![i].result = calls[i].fault]
    /\ UNCHANGED <<env, life, dev, media, flags, conference, log>>

\* --------------------------------------------------------------- ended
\* mutant: the ended flag is not looked at
isEnded_ReadyStateOnly == track # NoTrack /\ track.readyState = "ended"

\* with no native track isEnded() throws and returns nothing
isEnded == track # NoTrack /\ (track.readyState = "ended" \/ _trackEnded)

\* the browser ends the native track (device unplugged, capture stopped)
nativeTrackEnded ==
    /\ track # NoTrack
    /\ track.readyState = "live"
    /\ track' = [track EXCEPT !.readyState = "ended"]
    /\ UNCHANGED <<env, life, dev, stream, streams, videoType, flags,
                   conference, inMuteOrUnmuteProgress, calls, log>>

\* ------------------------------------------------------------- dispose
\* mutant: the stream is not released
dispose_KeepsStream ==
    /\ disposing = "idle"
    /\ disposing' = IF conference # "none" THEN "removeWait" ELSE "super"
    /\ disposeLog' =
          (IF conference # "none" THEN <<"removeTrack">> ELSE <<>>)
          \o <<"removeListener">>
    /\ UNCHANGED <<env, dev, media, flags, conference,
                   inMuteOrUnmuteProgress, calls, log>>

\* the synchronous part of dispose()
dispose ==
    /\ disposing = "idle"
    /\ disposing' = IF conference # "none" THEN "removeWait" ELSE "super"
    /\ streams' = IF stream # 0 THEN stopMediaStream(stream) ELSE streams
    /\ disposeLog' =
          (IF conference # "none" THEN <<"removeTrack">> ELSE <<>>)
          \o (IF stream # 0 THEN <<"stopMediaStream", "detach">> ELSE <<>>)
          \o <<"removeListener">>
    /\ UNCHANGED <<env, dev, stream, track, videoType, flags, conference,
                   inMuteOrUnmuteProgress, calls, log>>

\* the promise of conference.removeTrack settles
removeTrackDone(ok) ==
    /\ disposing = "removeWait"
    /\ disposing' = IF ok THEN "super" ELSE "failed"
    /\ disposeLog' = Append(disposeLog, IF ok THEN "removeTrackOk"
                                        ELSE "removeTrackFail")
    /\ UNCHANGED <<env, dev, media, flags, conference,
                   inMuteOrUnmuteProgress, calls, log>>

\* the callback that calls JitsiTrack.prototype.dispose
superDispose ==
    /\ disposing = "super"
    /\ disposing' = "done"
    /\ disposeLog' = Append(disposeLog, "superDispose")
    /\ UNCHANGED <<env, dev, media, flags, conference,
                   inMuteOrUnmuteProgress, calls, log>>

\* ------------------------------------------------------------- inputs
Tracks ==
    {NoTrack}
    \cup [enabled : BOOLEAN, label : {"L1"}, facing : {Undefined},
          readyState : {"live"}]

\* the stream and native track a track is constructed with: live and
\* enabled, or muted in one of the three ways isMuted() knows
InitialMedia ==
    {m \in [track : Tracks, active : BOOLEAN] :
        m.active \/ (m.track # NoTrack /\ m.track.enabled)}

FreshTrack(label, facing, readyState) ==
    [enabled |-> TRUE, label |-> label, facing |-> facing,
     readyState |-> readyState]

StreamInfo(mt, vt, t) == [mediaType |-> mt, videoType |-> vt, track |-> t]

\* results of RTCUtils.obtainAudioAndVideoPermissions
StreamsInfos ==
    LET a == StreamInfo("audio", Undefined,
                        FreshTrack("L0", Undefined, "live"))
        c1 == StreamInfo("video", "camera",
                         FreshTrack("L1", "environment", "live"))
        c2 == StreamInfo("video", "camera",
                         FreshTrack("L2", Undefined, Undefined))
        d == StreamInfo("video", "desktop",
                        FreshTrack("L1", Undefined, "live"))
    IN {<<>>, <<a>>, <<c1>>, <<a, c2>>, <<d>>}

Device(kind, label, id) == [kind |-> kind, label |-> label, deviceId |-> id]

\* values _setConference is called with: no conference, a joined conference
Conferences == {"none", "room"}
\* the same with a conference that has not joined a room yet
AllConferences == {"none", "noroom", "room"}

\* lists delivered with RTCEvents.DEVICE_LIST_CHANGED
DeviceLists ==
    {<<>>,
     <<Device("audioinput", "L1", "d1"), Device("videoinput", "L1", "d2")>>}

\* lists with and without a label match, with and without the resolved id
AllDeviceLists ==
    DeviceLists
    \cup {<<Device("videoinput", "L1", "d1"), Device("audioinput", "L1", "d2")>>,
          <<Device("videoinput", "L9", "d1"), Device("audioinput", "L9", "d1")>>,
          <<Device("audioinput", "L1", ""), Device("videoinput", "L1", "")>>,
          <<Device("audiooutput", "L1", "d3")>>}

\* native tracks of browsers with and without readyState
DeviceTracks ==
    [enabled : {TRUE}, label : {"L1"}, facing : {Undefined},
     readyState : {Undefined, "live"}]

\* -------------------------------------------------------- specification
Init ==
    /\ mediaType \in {"audio", "video"}
    /\ videoType \in IF mediaType = "audio" THEN {Undefined}
                     ELSE {"camera", "desktop"}
    /\ protocol \in {"https:", "http:"}
    /\ isFirefox \in BOOLEAN
    /\ resolution \in {"720"}
    /\ deviceId \in {""}
    /\ _facingMode \in IF videoType = "camera"
                       THEN {Undefined, "environment"} ELSE {Undefined}
    /\ _realDeviceId = IF deviceId = "" THEN Undefined ELSE deviceId
    /\ _trackEnded = FALSE
    /\ stream = 1
    /\ \E m \in InitialMedia :
          /\ streams = <<[active |-> m.active, stopped |-> FALSE]>>
          /\ track = m.track
    /\ conference = "none"
    /\ startMuted = FALSE
    /\ dontFireRemoveEvent = FALSE
    /\ inMuteOrUnmuteProgress = FALSE
    /\ calls = <<>>
    /\ log = <<>>
    /\ disposing = "idle"
    /\ disposeLog = <<>>

Step(i) ==
    \/ \E fault \in RoomFaults \cup {NoFault} : removeStreamDone(i, fault)
    \/ muteStreamRemoved(i)
    \/ \E streamsInfo \in StreamsInfos : unmuteStreamsObtained(i, streamsInfo)
    \/ unmuteObtainFailed(i)
    \/ \E fault \in RoomFaults \cup {NoFault} : addStreamDone(i, fault)
    \/ muteStatusStep(i)
    \/ setMuteDone(i)
    \/ emitMuteChanged(i)
    \/ muteUnmuteThen(i)
    \/ muteUnmuteCatch(i)

Next ==
    \/ mute
    \/ unmute
    \/ \E c \in Conferences : _setConference(c)
    \/ \E devices \in DeviceLists : _onDeviceListChanged(devices)
    \/ \E i \in 1..Len(calls) : Step(i)

Spec == Init /\ [][Next]_vars

\* the same track with conferences that have no room
RoomNext ==
    \/ mute
    \/ unmute
    \/ \E c \in AllConferences : _setConference(c)
    \/ \E devices \in DeviceLists : _onDeviceListChanged(devices)
    \/ \E i \in 1..Len(calls) : Step(i)

RoomSpec == Init /\ [][RoomNext]_vars

\* tracks created with and without a requested device, on browsers with and
\* without readyState, whose native track may end
DeviceInit ==
    /\ mediaType \in {"audio", "video"}
    /\ videoType = IF mediaType = "audio" THEN Undefined ELSE "camera"
    /\ protocol = "https:"
    /\ isFirefox \in BOOLEAN
    /\ resolution = "720"
    /\ deviceId \in {"", "d1"}
    /\ _facingMode = Undefined
    /\ _realDeviceId = IF deviceId = "" THEN Undefined ELSE deviceId
    /\ _trackEnded = FALSE
    /\ stream = 1
    /\ streams = <<[active |-> TRUE, stopped |-> FALSE]>>
    /\ track \in DeviceTracks
    /\ conference = "none"
    /\ startMuted = FALSE
    /\ dontFireRemoveEvent = FALSE
    /\ inMuteOrUnmuteProgress = FALSE
    /\ calls = <<>>
    /\ log = <<>>
    /\ disposing = "idle"
    /\ disposeLog = <<>>

DeviceNext ==
    \/ mute
    \/ unmute
    \/ \E c \in Conferences : _setConference(c)
    \/ \E devices \in AllDeviceLists : _onDeviceListChanged(devices)
    \/ nativeTrackEnded
    \/ \E i \in 1..Len(calls) : Step(i)

DeviceSpec == DeviceInit /\ [][DeviceNext]_vars

\* audio and camera tracks on https outside Firefox, disposed at any moment
DisposeInit ==
    /\ mediaType \in {"audio", "video"}
    /\ videoType = IF mediaType = "audio" THEN Undefined ELSE "camera"
    /\ protocol = "https:"
    /\ isFirefox = FALSE
    /\ resolution = "720"
    /\ deviceId = ""
    /\ _facingMode = Undefined
    /\ _realDeviceId = Undefined
    /\ _trackEnded = FALSE
    /\ stream = 1
    /\ \E m \in InitialMedia :
          /\ streams = <<[active |-> m.active, stopped |-> FALSE]>>
          /\ track = m.track
    /\ conference = "none"
    /\ startMuted = FALSE
    /\ dontFireRemoveEvent = FALSE
    /\ inMuteOrUnmuteProgress = FALSE
    /\ calls = <<>>
    /\ log = <<>>
    /\ disposing = "idle"
    /\ disposeLog = <<>>

DisposeNext ==
    \/ mute
    \/ unmute
    \/ \E c \in AllConferences : _setConference(c)
    \/ dispose
    \/ \E ok \in BOOLEAN : removeTrackDone(ok)
    \/ superDispose
    \/ \E i \in 1..Len(calls) : Step(i)

DisposeSpec == DisposeInit /\ [][DisposeNext]_vars

\* a promise callback whose promise has settled runs, and every request
\* made to the room or to RTCUtils is answered
FairStep(i) == i \in 1..Len(calls) /\ Step(i)

\* audio tracks take the local-disablement branch, camera tracks the teardown
FairSpec ==
    DisposeInit /\ [][Next]_vars /\ \A i \in 1..MaxCalls : WF_vars(FairStep(i))

\* --------------------------------------------- vocabulary of the claims
Ids == 1..Len(calls)
Rejected(i) == calls[i].busy
Accepted(i) == ~calls[i].busy
\* the target already equalled isMuted() when the call was made
NoOp(i) == Accepted(i) /\ calls[i].was = calls[i].mute
Transition(i) == Accepted(i) /\ calls[i].was # calls[i].mute
Delivered(i) == calls[i].pc = "done"
InFlight == {i \in Ids : Accepted(i) /\ ~Delivered(i)}
\* a mute() or unmute() call is made in this step
CallStep == Len(calls') = Len(calls) + 1
NewCall == calls'[Len(calls')]
OldCallsKept == SubSeq(calls', 1, Len(calls)) = calls
\* the result of call i is delivered in this step
Delivery(i) == i \in Ids /\ ~Delivered(i) /\ calls'[i].pc = "done"
OpsOf(i, ops) == {k \in 1..Len(log) : log[k].id = i /\ log[k].op \in ops}

\* C1: at most one accepted mute()/unmute() is in flight at any time; a
\* call made while inMuteOrUnmuteProgress is true is rejected with
\* TRACK_MUTE_UNMUTE_IN_PROGRESS and changes nothing: no collaborator call,
\* no event, no track state, and the chain in flight stays where it was.
C1_OneInFlight ==
    /\ [](Cardinality(InFlight) <= 1)
    /\ [][(CallStep /\ inMuteOrUnmuteProgress) =>
            /\ NewCall.result = TRACK_MUTE_UNMUTE_IN_PROGRESS
            /\ NewCall.pc = "done"
            /\ OldCallsKept
            /\ UNCHANGED <<env, life, dev, media, flags, conference,
                           inMuteOrUnmuteProgress, log>>]_vars

\* a teardown mute completed although a call was rejected in between
C1_Witness ==
    \E i, j \in Ids :
        /\ i < j /\ Rejected(j)
        /\ calls[j].result = TRACK_MUTE_UNMUTE_IN_PROGRESS
        /\ Transition(i) /\ Delivered(i) /\ calls[i].result = OK
        /\ OpsOf(i, {"removeStreamOk"}) # {}

\* C2 (as stated): a call whose target already equals isMuted() does not
\* set inMuteOrUnmuteProgress, so as long as only such calls were made the
\* guard is false and no call was rejected.
C2_NoOpTakesNoGuard ==
    (\A i \in Ids : ~Transition(i)) =>
        /\ ~inMuteOrUnmuteProgress
        /\ \A i \in Ids : Accepted(i)

\* C2 (amended): a call whose target already equals isMuted() succeeds, but
\* it does set inMuteOrUnmuteProgress, which stays true until the call's
\* result is delivered; a call made in between is rejected.
C2_NoOpHoldsGuard ==
    /\ [](\A i \in Ids : NoOp(i) =>
            /\ calls[i].pc \in {"then", "done"}
            /\ ~Delivered(i) => inMuteOrUnmuteProgress
            /\ Delivered(i) => calls[i].result = OK)
    /\ [][(CallStep /\ ~inMuteOrUnmuteProgress
                    /\ NewCall.mute = isMuted) =>
            /\ inMuteOrUnmuteProgress'
            /\ NewCall.pc # "done"]_vars
    /\ [][(CallStep /\ \E i \in Ids : NoOp(i) /\ ~Delivered(i)) =>
            NewCall.result = TRACK_MUTE_UNMUTE_IN_PROGRESS]_vars

\* a call was rejected while a no-op call was waiting for its result
C2_Witness ==
    \E i, j \in Ids :
        /\ i < j /\ NoOp(i) /\ ~Delivered(i) /\ Rejected(j)
        /\ \A k \in Ids : ~Transition(k)

\* the fault a collaborator raised against call i, as the log recorded it
FailOps == {"removeStreamFail", "addStreamFail", "obtainFail"}
RaisedFaults(i) ==
    {log[k].arg : k \in OpsOf(i, FailOps)}
    \cup {TRACK_NO_STREAM_FOUND : k \in OpsOf(i, {"obtainedNone"})}

\* C3: when the result of an accepted call is delivered the guard is false,
\* on success and on failure; a failed call delivers the very fault the
\* failing step raised; with no accepted call awaiting its result the guard
\* is false, and the next call is accepted.
C3_GuardCleared ==
    /\ [][\A i \in Ids : (Accepted(i) /\ Delivery(i)) =>
            /\ ~inMuteOrUnmuteProgress'
            /\ IF RaisedFaults(i) = {} THEN calls'[i].result = OK
               ELSE RaisedFaults(i) = {calls'[i].result}]_vars
    /\ [](InFlight = {} <=> ~inMuteOrUnmuteProgress)
    /\ [][(CallStep /\ InFlight = {}) =>
            NewCall.result # TRACK_MUTE_UNMUTE_IN_PROGRESS]_vars

\* a call failed with the room's fault and the call after it was accepted
C3_Witness ==
    \E i, j \in Ids :
        /\ i < j /\ Accepted(i) /\ Delivered(i)
        /\ calls[i].result \in RoomFaults
        /\ Accepted(j) /\ Transition(j)

Events(i) == OpsOf(i, {"TRACK_MUTE_CHANGED"})
\* the chain _setMute returned for call i has resolved
Succeeded(i) ==
    Accepted(i) /\ calls[i].pc \in {"then", "done"} /\ RaisedFaults(i) = {}
AllEvents == {k \in 1..Len(log) : log[k].op = "TRACK_MUTE_CHANGED"}

\* C4: a call whose target differed from isMuted() when it was accepted
\* (a transition) and whose chain has succeeded has emitted
\* TRACK_MUTE_CHANGED exactly once, under either policy; every other call
\* (rejected, failed, not yet completed, or a no-op) has emitted none, so
\* the number of events equals the number of succeeded transitions.
C4_OneEventPerTransition ==
    /\ \A i \in Ids :
          Cardinality(Events(i)) =
              IF Transition(i) /\ Succeeded(i) THEN 1 ELSE 0
    /\ Cardinality(AllEvents) =
          Cardinality({i \in Ids : Transition(i) /\ Succeeded(i)})

\* one transition emitted its event and the next, failing on the room's
\* fault, emitted none
C4_Witness ==
    \E i, j \in Ids :
        /\ i < j /\ Transition(i) /\ Transition(j)
        /\ Delivered(i) /\ Delivered(j)
        /\ Cardinality(Events(i)) = 1
        /\ calls[j].result \in RoomFaults /\ Events(j) = {}

SessionOps == {"removeStream", "addStream", "setAudioMute", "setVideoMute"}
AckOf(op) ==
    CASE op = "removeStream" -> "removeStreamOk"
      [] op = "addStream" -> "addStreamOk"
      [] OTHER -> "setMuteOk"

\* C5: when TRACK_MUTE_CHANGED is emitted for a transition, every room
\* request of that transition has been acknowledged (removeStream or
\* addStream first, then setAudioMute/setVideoMute), no entry of that
\* transition follows the event, and nothing of a later call precedes it;
\* the setAudioMute/setVideoMute request is made exactly when the track is
\* bound at that step, and the event follows either way.
C5_EventAfterSessionSteps ==
    /\ [](\A k \in AllEvents :
            LET i == log[k].id IN
            /\ \A p \in OpsOf(i, SessionOps) :
                  /\ p < k
                  /\ \E q \in OpsOf(i, {AckOf(log[p].op)}) : p < q /\ q < k
            /\ \A p \in OpsOf(i, {"removeStreamOk", "addStreamOk"}) :
                  \A q \in OpsOf(i, {"setAudioMute", "setVideoMute"}) : p < q
            /\ \A p \in 1..Len(log) :
                  /\ (log[p].id = i => p <= k)
                  /\ (p < k => log[p].id <= i)
                  /\ (p > k => log[p].id > i))
    /\ [][\A i \in Ids :
            (calls[i].pc = "sendMute" /\ calls'[i].pc # "sendMute") =>
               IF conference = "room"
               THEN /\ calls'[i].pc = "setMuteWait"
                    /\ log' = Append(log,
                          Entry(IF mediaType = "audio" THEN "setAudioMute"
                                ELSE "setVideoMute", i, calls[i].mute))
               ELSE calls'[i].pc = "emit" /\ log' = log]_vars
    /\ [][\A i \in Ids :
            (calls[i].pc = "emit" /\ calls'[i].pc # "emit") =>
               /\ Len(log') = Len(log) + 1
               /\ log'[Len(log')].op = "TRACK_MUTE_CHANGED"
               /\ log'[Len(log')].id = i]_vars

\* a bound teardown unmute emitted after addStream and setVideoMute were
\* acknowledged, and the transition before it emitted with the step skipped
C5_Witness ==
    \E i, j \in Ids :
        /\ i < j
        /\ Events(i) # {} /\ OpsOf(i, SessionOps) = {}
        /\ Events(j) # {}
        /\ OpsOf(j, {"addStreamOk"}) # {} /\ OpsOf(j, {"setMuteOk"}) # {}

\* C6: a call whose target already equals isMuted() calls no collaborator
\* and emits no event, neither when it is made nor when its result is
\* delivered, and leaves the stream, the native track (enabled flag
\* included), the video type, startMuted and dontFireRemoveEvent unchanged.
C6_NoOpIsPure ==
    /\ [](\A i \in Ids : NoOp(i) => \A k \in 1..Len(log) : log[k].id # i)
    /\ [][(CallStep /\ ~inMuteOrUnmuteProgress /\ NewCall.mute = isMuted) =>
            UNCHANGED <<env, life, dev, media, flags, conference, log>>]_vars
    /\ [][\A i \in Ids : (NoOp(i) /\ calls'[i] # calls[i]) =>
            UNCHANGED <<env, life, dev, media, flags, conference, log>>]_vars

\* a no-op mute() on a track muted by stream teardown was delivered
C6_Witness ==
    \E i, j \in Ids :
        /\ i < j /\ OpsOf(i, {"clearStream"}) # {}
        /\ NoOp(j) /\ calls[j].mute /\ Delivered(j) /\ calls[j].result = OK
        /\ stream = 0

\* the policy of the claims: local disablement for an audio track, a
\* desktop-share video track, a non-https context or Firefox
LocalPolicy(vt) ==
    mediaType = "audio" \/ vt = "desktop" \/ protocol = "http:" \/ isFirefox
LocalAt(i) == LocalPolicy(calls[i].vt)
TeardownOps ==
    {"removeStream", "removeStreamOk", "removeStreamFail", "stopMediaStream",
     "clearStream", "obtain", "obtained", "obtainedNone", "obtainFail",
     "adopt", "addStream", "addStreamOk", "addStreamFail"}
\* a call is accepted in this step and is not a no-op
TransitionStep(target) ==
    /\ CallStep /\ ~inMuteOrUnmuteProgress
    /\ NewCall.mute = target /\ isMuted # target
Last(s) == s[Len(s)]

\* C7: under the local-disablement policy a call never asks the room to
\* remove or add a stream and never releases, re-acquires or clears the
\* stream: no step changes the stream, and an accepted transition sets the
\* native track's enabled flag to the negation of its target and nothing
\* else of the native track.
C7_LocalDisablementOnly ==
    /\ [](\A k \in 1..Len(log) :
            LocalAt(log[k].id) => log[k].op \notin TeardownOps)
    /\ [][LocalPolicy(videoType) =>
            /\ stream' = stream /\ streams' = streams
            /\ videoType' = videoType
            /\ \A target \in BOOLEAN :
                 TransitionStep(target) =>
                    track' = IF track = NoTrack THEN NoTrack
                             ELSE [track EXCEPT !.enabled = ~target]
            /\ (~CallStep \/ inMuteOrUnmuteProgress
                          \/ NewCall.mute = isMuted) => track' = track]_vars

\* a bound desktop-share track on https outside Firefox was muted and
\* unmuted again
C7_Witness ==
    \E i, j \in Ids :
        /\ i < j /\ videoType = "desktop" /\ protocol = "https:" /\ ~isFirefox
        /\ Transition(i) /\ calls[i].mute /\ calls[i].result = OK
        /\ Transition(j) /\ ~calls[j].mute /\ calls[j].result = OK
        /\ OpsOf(i, {"setVideoMute"}) # {}
        /\ ~isMuted /\ stream = 1

TeardownMute(i) == Transition(i) /\ calls[i].mute /\ ~LocalAt(i)

\* C8: a teardown-policy mute() asks the room to remove the stream, tagged
\* "mute", exactly when the track is bound; it releases the stream and then
\* clears the reference, and only after the room has acknowledged the
\* removal (at once when unbound); until then the stream is neither
\* released nor cleared; when the mute() succeeds isMuted() is true.
C8_TeardownMuteOrder ==
    /\ [](\A i \in Ids : TeardownMute(i) =>
            /\ \A r \in OpsOf(i, {"removeStream"}) : log[r].arg = "mute"
            /\ \A s \in OpsOf(i, {"stopMediaStream"}) :
                  /\ \A r \in OpsOf(i, {"removeStream"}) :
                        \E a \in OpsOf(i, {"removeStreamOk"}) : r < a /\ a < s
                  /\ OpsOf(i, {"clearStream"}) = {s + 1}
            /\ OpsOf(i, {"removeStreamFail"}) # {} =>
                  OpsOf(i, {"stopMediaStream", "clearStream"}) = {}
            /\ (~Delivered(i) /\ OpsOf(i, {"clearStream"}) = {}) =>
                  /\ stream = calls[i].had /\ stream # 0
                  /\ ~streams[stream].stopped)
    /\ [][TransitionStep(TRUE) /\ ~LocalPolicy(videoType) =>
            IF conference = "room"
            THEN /\ Len(log') = Len(log) + 1
                 /\ Last(log').op = "removeStream"
                 /\ Last(log').id = Len(calls')
            ELSE log' = log]_vars
    /\ [][\A i \in Ids :
            (TeardownMute(i) /\ calls[i].pc = "stopStream"
                             /\ calls'[i].pc # "stopStream") =>
               /\ streams'[stream].stopped
               /\ stream' = 0]_vars
    /\ [][\A i \in Ids :
            (TeardownMute(i) /\ Delivery(i) /\ calls'[i].result = OK) =>
               isMuted' /\ stream' = 0]_vars

\* a bound camera track was muted: the room acknowledged the removal, the
\* stream was released and cleared, and the call succeeded
C8_Witness ==
    \E i \in Ids :
        /\ TeardownMute(i) /\ Delivered(i) /\ calls[i].result = OK
        /\ OpsOf(i, {"removeStream"}) # {}
        /\ stream = 0 /\ streams[1].stopped /\ isMuted

TeardownUnmute(i) == Transition(i) /\ ~calls[i].mute /\ ~LocalAt(i)
\* the device id, facing mode and resolution of the track as the claims
\* describe them
CurrentDeviceId ==
    IF _realDeviceId \notin {Undefined, ""} THEN _realDeviceId ELSE deviceId
CurrentFacingMode ==
    IF track # NoTrack /\ track.facing \in {"user", "environment"}
    THEN track.facing
    ELSE IF _facingMode \in {"user", "environment"} THEN _facingMode
    ELSE "user"

\* C9: a teardown-policy unmute() asks the capture provider for a stream
\* with the track's current device id, facing mode and resolution; when the
\* result holds a stream of the track's type the track adopts that stream
\* and native track, and only then asks the room to add the stream, tagged
\* "unmute", exactly when the track is bound; when the unmute() succeeds
\* isMuted() is false.
C9_TeardownUnmuteOrder ==
    /\ [][TransitionStep(FALSE) /\ ~LocalPolicy(videoType) =>
            /\ Len(log') = Len(log) + 1
            /\ Last(log').op = "obtain" /\ Last(log').id = Len(calls')
            /\ Last(log').arg = [cameraDeviceId |-> CurrentDeviceId,
                                 facingMode |-> CurrentFacingMode,
                                 resolution |-> resolution]
            /\ UNCHANGED media]_vars
    /\ [](\A i \in Ids : TeardownUnmute(i) =>
            /\ \A a \in OpsOf(i, {"addStream"}) :
                  /\ log[a].arg = "unmute"
                  /\ \E o \in OpsOf(i, {"obtain"}) :
                        \E d \in OpsOf(i, {"adopt"}) : o < d /\ d < a
            /\ \A d \in OpsOf(i, {"adopt"}) :
                  ~Delivered(i) =>
                     /\ stream = log[d].arg /\ stream # calls[i].had
                     /\ track = log[d - 1].arg.track
                     /\ videoType = log[d - 1].arg.videoType)
    /\ [][\A i \in Ids :
            (TeardownUnmute(i) /\ calls[i].pc = "obtainWait"
                               /\ calls'[i].pc \notin {"obtainWait", "catch"}) =>
               /\ stream' \notin DOMAIN streams
               /\ stream' \in DOMAIN streams'
               /\ IF conference = "room"
                  THEN Last(log').op = "addStream" /\ Last(log').id = i
                  ELSE Last(log').op = "adopt"]_vars
    /\ [][\A i \in Ids :
            (TeardownUnmute(i) /\ Delivery(i) /\ calls'[i].result = OK) =>
               ~isMuted' /\ stream' # 0]_vars

\* a bound camera track whose device id had been resolved to "d2" was
\* unmuted: the stream was requested for "d2", adopted, then added
C9_Witness ==
    \E i \in Ids :
        /\ TeardownUnmute(i) /\ Delivered(i) /\ calls[i].result = OK
        /\ \E o \in OpsOf(i, {"obtain"}) : log[o].arg.cameraDeviceId = "d2"
        /\ OpsOf(i, {"addStreamOk"}) # {}
        /\ ~isMuted /\ stream = 2

\* call i is the latest accepted transition
LatestTransition(i) == \A j \in Ids : j > i => ~Transition(j)
NoStreamFound(i) == OpsOf(i, {"obtainedNone"}) # {}

\* C10 (as stated): after a teardown-policy unmute() obtained no stream of
\* the track's type the stream is null, isMuted() is true, the call fails
\* with TRACK_NO_STREAM_FOUND, and addStream, setAudioMute/setVideoMute and
\* TRACK_MUTE_CHANGED did not happen.
C10_NoStreamFoundLeavesNull ==
    \A i \in Ids : (NoStreamFound(i) /\ LatestTransition(i)) =>
        /\ stream = 0
        /\ isMuted
        /\ Delivered(i) => calls[i].result = TRACK_NO_STREAM_FOUND
        /\ OpsOf(i, {"addStream", "setAudioMute", "setVideoMute",
                     "TRACK_MUTE_CHANGED"}) = {}

\* C10 (amended): after a teardown-policy unmute() obtained no stream of
\* the track's type the stream and the native track are what they were when
\* unmute() was called (a null stream stays null, a stream that was inactive
\* or whose native track was disabled or absent stays in place), isMuted()
\* is true, the call fails with TRACK_NO_STREAM_FOUND with the guard
\* cleared, and addStream, setAudioMute/setVideoMute and TRACK_MUTE_CHANGED
\* did not happen.
C10_NoStreamFoundLeavesStream ==
    /\ [](\A i \in Ids : (NoStreamFound(i) /\ LatestTransition(i)) =>
            /\ stream = calls[i].had
            /\ isMuted
            /\ calls[i].pc \in {"catch", "done"}
            /\ Delivered(i) => calls[i].result = TRACK_NO_STREAM_FOUND
            /\ OpsOf(i, {"addStream", "setAudioMute", "setVideoMute",
                         "TRACK_MUTE_CHANGED"}) = {})
    /\ [][\A i \in Ids : (NoStreamFound(i) /\ Delivery(i)) =>
            ~inMuteOrUnmuteProgress']_vars
    /\ [][\A i \in Ids :
            (TeardownUnmute(i) /\ calls'[i] # calls[i]
                               /\ calls'[i].pc \in {"catch", "done"}) =>
               UNCHANGED media]_vars

\* an unmute() after a teardown mute failed with TRACK_NO_STREAM_FOUND and
\* left the stream null
C10_Witness ==
    \E i, j \in Ids :
        /\ i < j /\ TeardownMute(i) /\ OpsOf(i, {"clearStream"}) # {}
        /\ NoStreamFound(j) /\ Delivered(j)
        /\ calls[j].result = TRACK_NO_STREAM_FOUND
        /\ stream = 0 /\ ~inMuteOrUnmuteProgress

RemoveFailed(i) == OpsOf(i, {"removeStreamFail"}) # {}
AddFailed(i) == OpsOf(i, {"addStreamFail"}) # {}

\* C11: when the room rejects removeStream or addStream the call fails with
\* the room's fault and the guard is cleared at delivery; nothing is rolled
\* back: after a rejected removeStream the stream is still the one the call
\* found, neither released nor cleared; after a rejected addStream the
\* acquired stream and native track stay adopted; in both cases
\* setAudioMute/setVideoMute is not called and no event is emitted.
C11_RoomFailureNoRollback ==
    /\ [](\A i \in Ids : (RemoveFailed(i) \/ AddFailed(i)) =>
            /\ calls[i].pc \in {"catch", "done"}
            /\ Delivered(i) =>
                  \E k \in OpsOf(i, {"removeStreamFail", "addStreamFail"}) :
                     calls[i].result = log[k].arg
            /\ OpsOf(i, {"setAudioMute", "setVideoMute",
                         "TRACK_MUTE_CHANGED"}) = {})
    /\ [](\A i \in Ids : (RemoveFailed(i) /\ LatestTransition(i)) =>
            /\ OpsOf(i, {"stopMediaStream", "clearStream"}) = {}
            /\ stream = calls[i].had /\ stream # 0
            /\ ~streams[stream].stopped)
    /\ [](\A i \in Ids : (AddFailed(i) /\ LatestTransition(i)) =>
            \A d \in OpsOf(i, {"adopt"}) :
               /\ stream = log[d].arg /\ stream # 0
               /\ ~streams[stream].stopped
               /\ track = log[d - 1].arg.track)
    /\ [][\A i \in Ids :
            ((RemoveFailed(i) \/ AddFailed(i)) /\ Delivery(i)) =>
               ~inMuteOrUnmuteProgress' /\ UNCHANGED media]_vars

\* an unmute() whose addStream the room rejected was delivered: the call
\* failed with the room's fault and the track is unmuted on the new stream
C11_Witness ==
    \E i \in Ids :
        /\ AddFailed(i) /\ Delivered(i) /\ calls[i].result \in RoomFaults
        /\ stream = 2 /\ ~isMuted /\ ~inMuteOrUnmuteProgress

\* the entries this step adds to the log
NewEntries == {k \in 1..Len(log') : k > Len(log)}
NoSession == conference \in {"none", "noroom"}
\* the native track changes in nothing but its enabled flag
OnlyEnablement ==
    \/ track' = track
    \/ track # NoTrack /\ track' = [track EXCEPT !.enabled = track'.enabled]

\* C12 (as stated): while the track has no conference, or a conference
\* without a room, no step issues removeStream, addStream, setAudioMute or
\* setVideoMute, and mute()/unmute() change nothing of the stream and the
\* native track but the native track's enabled flag, under every policy.
C12_UnboundOnlyTogglesEnablement ==
    [][NoSession =>
          /\ \A k \in NewEntries : log'[k].op \notin SessionOps
          /\ stream' = stream /\ streams' = streams /\ OnlyEnablement]_vars

\* C12 (amended): while the track has no conference, or a conference without
\* a room, no step issues removeStream, addStream, setAudioMute or
\* setVideoMute, under every policy; under the local-disablement policy
\* the steps change nothing of the stream and the native track but the
\* enabled flag.
C12_UnboundNeverCallsRoom ==
    /\ [][NoSession => \A k \in NewEntries : log'[k].op \notin SessionOps]_vars
    /\ [][(NoSession /\ LocalPolicy(videoType)) =>
             /\ stream' = stream /\ streams' = streams /\ videoType' = videoType
             /\ OnlyEnablement]_vars

\* a teardown-policy mute() ran to its event with a conference that has no
\* room: the stream was released and cleared and the room never called
C12_Witness ==
    /\ conference = "noroom"
    /\ \A k \in 1..Len(log) : log[k].op \notin SessionOps
    /\ \E i \in Ids :
          /\ TeardownMute(i) /\ Delivered(i)
          /\ OpsOf(i, {"clearStream"}) # {}
          /\ OpsOf(i, {"TRACK_MUTE_CHANGED"}) # {}

\* C13: isMuted() is true whenever the stream is null, whatever the native
\* track's enabled flag and whether or not a transition is in flight.
C13_NullStreamIsMuted == stream = 0 => isMuted

\* the stream is null while the native track is present and enabled and an
\* unmute() is in flight
C13_Witness ==
    /\ stream = 0 /\ track # NoTrack /\ track.enabled
    /\ inMuteOrUnmuteProgress /\ isMuted

\* C14 (as stated): once isEnded() is true it is true in every later state.
C14_EndedNeverReverts == [][isEnded => isEnded']_vars

\* this step replaces the native track
Adopts == \E k \in NewEntries : log'[k].op = "adopt"

\* C14 (amended): the ended flag is never cleared and isEnded() is true in
\* every state where it is set; isEnded() stays true over every step that
\* does not replace the native track.
C14_EndedFlagPermanent ==
    /\ [][_trackEnded => _trackEnded']_vars
    /\ [](_trackEnded => isEnded)
    /\ [][(isEnded /\ ~Adopts) => isEnded']_vars

\* the flag was set on a native track without readyState, an unmute() then
\* replaced the native track by a live one, and isEnded() is still true
C14_Witness ==
    /\ _trackEnded /\ isEnded
    /\ stream > 1 /\ track.readyState = "live"

\* no entry of the list has the track's input kind and the native track's
\* label
NoLabelMatch(devices) ==
    \A n \in DOMAIN devices :
       ~(/\ devices[n].kind = (IF mediaType = "audio" THEN "audioinput"
                               ELSE "videoinput")
         /\ devices[n].label = track.label)

\* C15: once the resolved device id is set, a notification whose list has no
\* entry with the track's input kind and the native track's label leaves it
\* unchanged, and no step makes it unknown again; getDeviceId() is the
\* resolved id when that is a non-empty id and the requested id otherwise.
C15_ResolvedIdKept ==
    /\ [][\A devices \in AllDeviceLists :
            (/\ _realDeviceId # Undefined /\ track # NoTrack
             /\ NoLabelMatch(devices)
             /\ _onDeviceListChanged(devices))
               => _realDeviceId' = _realDeviceId]_vars
    /\ [][_realDeviceId # Undefined => _realDeviceId' # Undefined]_vars
    /\ [](getDeviceId = CurrentDeviceId)

\* a track created on the default device was resolved by a label match and
\* later saw a list without a label match (which marked it ended): the
\* resolved id is the one getDeviceId() returns
C15_Witness ==
    /\ deviceId = "" /\ _trackEnded
    /\ _realDeviceId = "d2" /\ getDeviceId = "d2"

\* C16: the ended flag is set only by a device-list notification, on a
\* native track without readyState, when the track has a resolved device id
\* that no entry of the list has; a track whose device id was never resolved
\* is not marked ended, and no step marks a track whose native track has a
\* readyState.
C16_EndedOnlyByHeuristic ==
    /\ [][(~_trackEnded /\ _trackEnded') =>
            \E devices \in AllDeviceLists :
               /\ _onDeviceListChanged(devices)
               /\ track.readyState = Undefined
               /\ _realDeviceId' # Undefined
               /\ \A n \in DOMAIN devices :
                     devices[n].deviceId # _realDeviceId']_vars
    /\ [](_realDeviceId = Undefined => ~_trackEnded)
    /\ [][(track # NoTrack /\ track.readyState # Undefined) =>
             _trackEnded' = _trackEnded]_vars

\* a track created for device d1 on a browser without readyState was marked
\* ended by a list without d1
C16_Witness ==
    /\ _trackEnded /\ track.readyState = Undefined
    /\ deviceId = "d1" /\ _realDeviceId = "d1" /\ stream = 1

\* where dispose() did something, 0 when it did not
DisposePos(what) == find([n \in DOMAIN disposeLog |-> disposeLog[n] = what])
\* dispose() found a conference
DisposedBound == disposeLog # <<>> /\ disposeLog[1] = "removeTrack"
\* dispose() is called in this step
DisposeCall == disposing = "idle" /\ disposing' # "idle"

\* C17 (as stated): dispose() on a track with a conference releases and
\* detaches the stream only after the conference completed the removal it
\* was asked for, and the base teardown is the last thing done.
C17_ReleaseAfterRemoval ==
    DisposedBound =>
       /\ \A k \in DOMAIN disposeLog :
             disposeLog[k] \in {"stopMediaStream", "detach"} =>
                DisposePos("removeTrackOk") \in 1..(k - 1)
       /\ DisposePos("superDispose") \in {0, Len(disposeLog)}

\* C17 (amended): dispose() on a track with a conference asks for the
\* removal first and, in the same call and without waiting for the removal,
\* releases and detaches the stream when there is one; the removal settles
\* after that, and the base teardown is the last thing done, right after
\* the removal completed.
C17_ReleaseWithoutWaiting ==
    /\ [][DisposeCall =>
            /\ (conference # "none") = (disposeLog'[1] = "removeTrack")
            /\ IF stream # 0
               THEN /\ streams'[stream].stopped
                    /\ DisposePos("detach")' = DisposePos("stopMediaStream")' + 1
                    /\ DisposePos("stopMediaStream")' =
                          IF conference # "none" THEN 2 ELSE 1
               ELSE /\ streams' = streams
                    /\ DisposePos("stopMediaStream")' = 0
            /\ DisposePos("removeTrackOk")' = 0
            /\ DisposePos("superDispose")' = 0]_vars
    /\ [](DisposedBound =>
            /\ DisposePos("superDispose") \in {0, Len(disposeLog)}
            /\ DisposePos("superDispose") # 0 =>
                  DisposePos("removeTrackOk") = Len(disposeLog) - 1
            /\ \A k \in DOMAIN disposeLog :
                  disposeLog[k] \in {"removeTrackOk", "removeTrackFail"} =>
                     k > DisposePos("removeListener"))

\* a track with a conference and a stream was disposed to the end
C17_Witness ==
    /\ disposing = "done"
    /\ disposeLog = <<"removeTrack", "stopMediaStream", "detach",
                      "removeListener", "removeTrackOk", "superDispose">>

\* C19: once dispose() has completed and no transition is in flight, every
\* stream the track was created with or acquired has been released.
C19_AllStreamsReleased ==
    (disposing = "done" /\ InFlight = {}) =>
        \A s \in DOMAIN streams : streams[s].stopped

\* C20: whenever TRACK_MUTE_CHANGED is emitted for a call, isMuted() at that
\* moment is the call's target: true for mute(), false for unmute().
C20_EventMatchesTarget ==
    \A k \in 1..Len(log) :
       log[k].op = "TRACK_MUTE_CHANGED" => log[k].arg = calls[log[k].id].mute

\* C18: every mute()/unmute() call is eventually delivered, with success or
\* with its fault, and whenever the guard is set it is eventually cleared.
C18_TransitionsComplete ==
    /\ \A i \in 1..MaxCalls :
          (i \in Ids) ~> (i \in Ids /\ Delivered(i))
    /\ inMuteOrUnmuteProgress ~> ~inMuteOrUnmuteProgress

\* one transition failed on the room's answer, a later one went through
\* the room to its event, both were delivered and the guard is clear
C18_Witness ==
    /\ ~inMuteOrUnmuteProgress
    /\ \E i, j \in Ids :
          /\ i < j /\ Transition(i) /\ Transition(j)
          /\ Delivered(i) /\ calls[i].result \in RoomFaults
          /\ Delivered(j) /\ calls[j].result = OK
          /\ OpsOf(j, {"setMuteOk"}) # {}


=============================================================================
